---- MODULE Spec2Model ----
(***************************************************************************)
(* A model of the range bookkeeping of verified_ranges: the frame-range    *)
(* registry (trusted_list.rs), the chunk constructor (trusted_chunk.rs)    *)
(* and the range operations (range.rs, memory_structs/range_inclusive.rs). *)
(* A Frame or Page is modelled by its number; the derived ordering of the  *)
(* one-field structs is the ordering of the numbers.  The address types    *)
(* (addr.rs), the unit types (memory_structs_for_fv/unit.rs) and the range *)
(* iterator are modelled on a machine word scaled down to WordBits bits.   *)
(***************************************************************************)
EXTENDS Integers, Sequences, FiniteSets, TLC

\* Largest frame number of the ranges handed to the registry.
MaxFrame == 2
\* Largest number of ranges in a registry: the raw append stores no more, and
\* no longer registry is drawn for a single call.
MaxLen == 2
\* Largest unit number of the ranges handed to the pure range operations.
MaxUnit == 9
\* The widths of the machine, scaled down so that every word can be visited:
\* bits of a usize (64 in the source),
WordBits == 7
\* bits of a physical address (52: bits 52..63 are zero),
PhysBits == 5
\* bits of a virtual address (48: bits 47..63 are the sign extension),
VirtBits == 4
\* and bits of the offset inside a page (12).
PAGE_SHIFT == 2
\* The iterated ranges have their bounds within this distance of 0 or of
\* usize::MAX,
MaxIterSpan == 2
\* and iter() is called at most this often on one range.
MaxIters == 2

VARIABLES
    list,        \* TrustedList.list: Vec<FrameRange>
    chunk_list,  \* the ChunkList handed to TrustedPChunk::new
    op,          \* the operation that ran last
    arg,         \* its range argument
    other,       \* its second range argument (overlap)
    idx,         \* its index argument (object_in_list_rec)
    result,      \* its return value
    pre,         \* TrustedList.list when it was called
    admit_only,  \* no raw push has been made: only push_unique, pop and lookups
    akind,       \* "physical" or "virtual": the type of the address in addr
    addr,        \* the usize inside a PhysicalAddress / VirtualAddress
    count,       \* a usize argument: a raw address, a byte count, a unit count
    unit,        \* Frame.number / Page.number
    it,          \* a RangeInclusiveIterator (offset, end), or NoIter
    out          \* the units the iterator has yielded so far

\* The variables of the address, unit and iterator operations.
aux == <<akind, addr, count, unit, it, out>>

vars == <<list, chunk_list, op, arg, other, idx, result, pre, admit_only, aux>>

---------------------------------------------------------------------------
\* Values

\* trusted_option.rs: Option<T>; Abort is a panic / a violated precondition.
None == [tag |-> "None"]
Some(v) == [tag |-> "Some", val |-> v]
Abort == [tag |-> "Abort"]

\* A returned value that is no Option: a bool, a usize, a range.
Ret(v) == [tag |-> "Ret", val |-> v]

\* RangeInclusive::new stores the bounds verbatim.
RangeInclusive_new(start, end) == [start |-> start, end |-> end]

FrameRange_new(start, end) == RangeInclusive_new(start, end)

PageRange_new(start, end) == RangeInclusive_new(start, end)

\* All ranges over the units 0..n, the empty ones (end < start) included.
RangesUpTo(n) == { RangeInclusive_new(s, e) : s \in 0..n, e \in 0..n }

Ranges == RangesUpTo(MaxFrame)

UnitRanges == RangesUpTo(MaxUnit)

max(a, b) == IF a >= b THEN a ELSE b

min(a, b) == IF a <= b THEN a ELSE b

is_empty_or_single(r) == r.end <= r.start

\* RangeInclusive::is_empty
is_empty(r) == r.end < r.start

contains_below_end(r, item) == r.start <= item /\ item < r.end

\* RangeInclusive::contains, through RangeBounds::contains with two Included bounds
contains(r, item) == r.start <= item /\ item <= r.end

---------------------------------------------------------------------------
\* range.rs

FrameRange_overlap_strict(self, oth) ==
    LET starts == max(self.start, oth.start)
        ends   == min(self.end, oth.end)
    IN  IF starts < ends THEN Some(FrameRange_new(starts, ends)) ELSE None

FrameRange_overlap_own_start(self, oth) ==
    LET starts == self.start
        ends   == min(self.end, oth.end)
    IN  IF starts <= ends THEN Some(FrameRange_new(starts, ends)) ELSE None

FrameRange_overlap_widest_end(self, oth) ==
    LET starts == max(self.start, oth.start)
        ends   == max(self.end, oth.end)
    IN  IF starts <= ends THEN Some(FrameRange_new(starts, ends)) ELSE None

FrameRange_overlap(self, oth) ==
    LET starts == max(self.start, oth.start)
        ends   == min(self.end, oth.end)
    IN  IF starts <= ends THEN Some(FrameRange_new(starts, ends)) ELSE None

FrameRange_to_extended_unchecked(self, to_include) ==
    FrameRange_new(min(self.start, to_include), max(self.end, to_include))

\* FrameRange::to_extended; is_empty through Deref to RangeInclusive
FrameRange_to_extended(self, to_include) ==
    IF is_empty(self)
    THEN FrameRange_new(to_include, to_include)
    ELSE LET start == min(self.start, to_include)
             end   == max(self.end, to_include)
         IN  FrameRange_new(start, end)

PageRange_to_extended(self, to_include) ==
    IF is_empty(self)
    THEN PageRange_new(to_include, to_include)
    ELSE LET start == min(self.start, to_include)
             end   == max(self.end, to_include)
         IN  PageRange_new(start, end)

PageRange_overlap(self, oth) ==
    LET starts == max(self.start, oth.start)
        ends   == min(self.end, oth.end)
    IN  IF starts <= ends THEN Some(PageRange_new(starts, ends)) ELSE None

---------------------------------------------------------------------------
\* trusted_list.rs

\* Vec::index, zero-based; out of bounds panics.
index(l, i) == IF i >= 0 /\ i < Len(l) THEN Some(l[i + 1]) ELSE Abort

len(l) == Len(l)

push(l, elem) == Append(l, elem)

\* requires old(self).list.len() > 0
pop(l) == [list |-> SubSeq(l, 1, Len(l) - 1), ret |-> l[Len(l)]]

\* fn object_in_list: the while loop from index i on
RECURSIVE object_in_list_from(_, _, _)
object_in_list_from(l, obj, i) ==
    IF i < len(l)
    THEN LET e == index(l, i)
         IN  IF e = Abort THEN Abort
             ELSE IF e.val.start = obj.start /\ e.val.end = obj.end
                  THEN Some(i)
                  ELSE object_in_list_from(l, obj, i + 1)
    ELSE None

\* The loop comparing the start bound only.
RECURSIVE object_in_list_start_from(_, _, _)
object_in_list_start_from(l, obj, i) ==
    IF i < len(l)
    THEN LET e == index(l, i)
         IN  IF e = Abort THEN Abort
             ELSE IF e.val.start = obj.start
                  THEN Some(i)
                  ELSE object_in_list_start_from(l, obj, i + 1)
    ELSE None

object_in_list_start_only(l, obj) == object_in_list_start_from(l, obj, 0)

\* The loop stopping one element early (while i + 1 < len).
RECURSIVE object_in_list_short_from(_, _, _)
object_in_list_short_from(l, obj, i) ==
    IF i + 1 < len(l)
    THEN LET e == index(l, i)
         IN  IF e = Abort THEN Abort
             ELSE IF e.val.start = obj.start /\ e.val.end = obj.end
                  THEN Some(i)
                  ELSE object_in_list_short_from(l, obj, i + 1)
    ELSE None

object_in_list_short(l, obj) == object_in_list_short_from(l, obj, 0)

object_in_list(l, obj) == object_in_list_from(l, obj, 0)

RECURSIVE object_in_list_rec_above_zero(_, _, _)
object_in_list_rec_above_zero(l, start_index, obj) ==
    LET e == index(l, start_index)
    IN  IF e = Abort THEN Abort
        ELSE IF start_index = 0
             THEN None
             ELSE IF obj.start = e.val.start /\ obj.end = e.val.end
                  THEN Some(start_index)
                  ELSE object_in_list_rec_above_zero(l, start_index - 1, obj)

\* fn object_in_list_rec; requires list.len() > 0 and start_index < list.len()
RECURSIVE object_in_list_rec(_, _, _)
object_in_list_rec(l, start_index, obj) ==
    LET e == index(l, start_index)
    IN  IF e = Abort THEN Abort
        ELSE IF obj.start = e.val.start /\ obj.end = e.val.end
             THEN Some(start_index)
             ELSE IF start_index = 0
                  THEN None
                  ELSE object_in_list_rec(l, start_index - 1, obj)

\* Property helper: some element of l overlaps elem (FrameRange::overlap is Some).
overlaps_in(l, elem) ==
    \E i \in 1..Len(l) : FrameRange_overlap(l[i], elem) # None

\* push_unique taking the else branch always.
push_unique_unchecked(l, elem) == [list |-> push(l, elem), ret |-> None]

\* push_unique rejecting only a range whose exact bounds are tracked.
push_unique_exact_only(l, elem) ==
    IF object_in_list(l, elem) # None
    THEN [list |-> l, ret |-> Some(elem)]
    ELSE [list |-> push(l, elem), ret |-> None]

\* push_unique scanning for an overlap and nothing else.
push_unique_overlap_only(l, elem) ==
    IF overlaps_in(l, elem)
    THEN [list |-> l, ret |-> Some(elem)]
    ELSE [list |-> push(l, elem), ret |-> None]

\* push_unique appending before it rejects.
push_unique_partial(l, elem) == [list |-> push(l, elem), ret |-> Some(elem)]

\* pub fn push_unique: the condition is the literal true
push_unique(l, elem) ==
    IF TRUE
    THEN [list |-> l, ret |-> Some(elem)]
    ELSE [list |-> push(l, elem), ret |-> None]

---------------------------------------------------------------------------
\* trusted_chunk.rs

range_overlaps_in_list_never(cl, elem) == FALSE

range_overlaps_in_list(cl, elem) == TRUE

\* fn new(frames, chunk_list: &mut ChunkList) -> Option<Self>
TrustedPChunk_new(frames, cl) ==
    IF frames.start > frames.end
    THEN [chunk_list |-> cl, ret |-> None]
    ELSE IF range_overlaps_in_list(cl, frames)
         THEN [chunk_list |-> cl, ret |-> None]
         ELSE [chunk_list |-> cl, ret |-> Some([frames |-> frames])]

---------------------------------------------------------------------------
\* addr.rs

usize == 0..(2 ^ WordBits - 1)

\* usize::MAX
usize_MAX == 2 ^ WordBits - 1

MAX_VIRTUAL_ADDRESS == usize_MAX

PAGE_SIZE == 2 ^ PAGE_SHIFT

MAX_PAGE_NUMBER == MAX_VIRTUAL_ADDRESS \div PAGE_SIZE

\* usize::saturating_add, usize::saturating_sub
saturating_add(a, b) == IF a + b > usize_MAX THEN usize_MAX ELSE a + b

saturating_sub(a, b) == IF a < b THEN 0 ELSE a - b

\* BitField::get_bits(lo..hi): the bits lo, ..., hi - 1 of v, shifted down
get_bits(v, lo, hi) == (v \div 2 ^ lo) % 2 ^ (hi - lo)

\* v << n on a usize: the bits shifted past the top are lost
shl(v, n) == (v * 2 ^ n) % 2 ^ WordBits

\* (v as isize >> n) as usize: the sign bit fills the n vacated top bits
sar(v, n) ==
    IF v >= 2 ^ (WordBits - 1)
    THEN (v \div 2 ^ n) + (2 ^ WordBits - 2 ^ (WordBits - n))
    ELSE v \div 2 ^ n

\* v & m for a mask m = 2 ^ k - 1 of the k low bits
and_low_bits(v, k) == v % 2 ^ k

is_canonical_virtual_address_top_only(virt_addr) ==
    get_bits(virt_addr, VirtBits, WordBits) \in {0, 2 ^ (WordBits - VirtBits) - 1}

\* get_bits(47..64) is 0 or seventeen ones
is_canonical_virtual_address(virt_addr) ==
    get_bits(virt_addr, VirtBits - 1, WordBits) \in {0, 2 ^ (WordBits - VirtBits + 1) - 1}

canonicalize_virtual_address_shifted(virt_addr) ==
    shl(virt_addr, WordBits - VirtBits)

\* ((virt_addr << 16) as isize >> 16) as usize
canonicalize_virtual_address(virt_addr) ==
    sar(shl(virt_addr, WordBits - VirtBits), WordBits - VirtBits)

\* get_bits(52..64) is 0
is_canonical_physical_address(phys_addr) ==
    get_bits(phys_addr, PhysBits, WordBits) = 0

\* phys_addr & 0x000F_FFFF_FFFF_FFFF
canonicalize_physical_address(phys_addr) == and_low_bits(phys_addr, PhysBits)

PhysicalAddress_new(a) ==
    IF is_canonical_physical_address(a) THEN Some(a) ELSE None

PhysicalAddress_new_canonical(a) == canonicalize_physical_address(a)

PhysicalAddress_zero == 0

PhysicalAddress_add_unmasked(self, rhs) == saturating_add(self, rhs)

PhysicalAddress_add(self, rhs) ==
    PhysicalAddress_new_canonical(saturating_add(self, rhs))

PhysicalAddress_add_assign(self, rhs) ==
    PhysicalAddress_new_canonical(saturating_add(self, rhs))

PhysicalAddress_sub(self, rhs) ==
    PhysicalAddress_new_canonical(saturating_sub(self, rhs))

PhysicalAddress_sub_assign(self, rhs) ==
    PhysicalAddress_new_canonical(saturating_sub(self, rhs))

VirtualAddress_new(a) ==
    IF is_canonical_virtual_address(a) THEN Some(a) ELSE None

VirtualAddress_new_canonical(a) == canonicalize_virtual_address(a)

VirtualAddress_zero == 0

VirtualAddress_add(self, rhs) ==
    VirtualAddress_new_canonical(saturating_add(self, rhs))

VirtualAddress_add_assign(self, rhs) ==
    VirtualAddress_new_canonical(saturating_add(self, rhs))

VirtualAddress_sub(self, rhs) ==
    VirtualAddress_new_canonical(saturating_sub(self, rhs))

VirtualAddress_sub_assign(self, rhs) ==
    VirtualAddress_new_canonical(saturating_sub(self, rhs))

\* The operations of the two address types, by kind.
AddressKinds == {"physical", "virtual"}

Address_new(k, a) ==
    IF k = "physical" THEN PhysicalAddress_new(a) ELSE VirtualAddress_new(a)

Address_new_canonical(k, a) ==
    IF k = "physical" THEN PhysicalAddress_new_canonical(a)
    ELSE VirtualAddress_new_canonical(a)

Address_zero(k) ==
    IF k = "physical" THEN PhysicalAddress_zero ELSE VirtualAddress_zero

Address_add(k, self, rhs) ==
    IF k = "physical" THEN PhysicalAddress_add(self, rhs)
    ELSE VirtualAddress_add(self, rhs)

Address_add_assign(k, self, rhs) ==
    IF k = "physical" THEN PhysicalAddress_add_assign(self, rhs)
    ELSE VirtualAddress_add_assign(self, rhs)

Address_sub(k, self, rhs) ==
    IF k = "physical" THEN PhysicalAddress_sub(self, rhs)
    ELSE VirtualAddress_sub(self, rhs)

Address_sub_assign(k, self, rhs) ==
    IF k = "physical" THEN PhysicalAddress_sub_assign(self, rhs)
    ELSE VirtualAddress_sub_assign(self, rhs)

canonicalize(k, a) ==
    IF k = "physical" THEN canonicalize_physical_address(a)
    ELSE canonicalize_virtual_address(a)

---------------------------------------------------------------------------
\* memory_structs_for_fv/unit.rs: a Frame or a Page is its number.

\* self.number * PAGE_SIZE on usize: a product past usize::MAX panics where
\* overflow is checked and wraps where it is not.
mul_page_size(number) ==
    IF number * PAGE_SIZE > usize_MAX
    THEN {Abort, Some((number * PAGE_SIZE) % 2 ^ WordBits)}
    ELSE {Some(number * PAGE_SIZE)}

\* The outcomes of Frame::start_address: Abort, or Some(address).
Frame_start_address(self) ==
    {IF p = Abort THEN Abort ELSE Some(PhysicalAddress_new_canonical(p.val)) :
        p \in mul_page_size(self)}

Frame_containing_address(a) == a \div PAGE_SIZE

Frame_add_unclamped(self, rhs) == saturating_add(self, rhs)

Frame_add(self, rhs) == min(MAX_PAGE_NUMBER, saturating_add(self, rhs))

Frame_add_assign(self, rhs) == min(MAX_PAGE_NUMBER, saturating_add(self, rhs))

Frame_sub(self, rhs) == saturating_sub(self, rhs)

Frame_sub_assign(self, rhs) == saturating_sub(self, rhs)

\* Step::forward_checked on usize is checked_add
usize_forward_checked(start, n) ==
    IF start + n > usize_MAX THEN None ELSE Some(start + n)

Frame_forward_checked(start, n) == usize_forward_checked(start, n)

Page_start_address(self) ==
    {IF p = Abort THEN Abort ELSE Some(VirtualAddress_new_canonical(p.val)) :
        p \in mul_page_size(self)}

Page_containing_address(a) == a \div PAGE_SIZE

Page_add(self, rhs) == min(MAX_PAGE_NUMBER, saturating_add(self, rhs))

Page_add_assign(self, rhs) == min(MAX_PAGE_NUMBER, saturating_add(self, rhs))

Page_sub(self, rhs) == saturating_sub(self, rhs)

Page_sub_assign(self, rhs) == saturating_sub(self, rhs)

Page_forward_checked(start, n) == usize_forward_checked(start, n)

\* Step::backward_checked on usize is checked_sub
usize_backward_checked(start, n) ==
    IF start < n THEN None ELSE Some(start - n)

Frame_backward_checked(start, n) == usize_backward_checked(start, n)

Page_backward_checked(start, n) == usize_backward_checked(start, n)

Unit_forward_checked(k, start, n) ==
    IF k = "physical" THEN Frame_forward_checked(start, n)
    ELSE Page_forward_checked(start, n)

Unit_backward_checked(k, start, n) ==
    IF k = "physical" THEN Frame_backward_checked(start, n)
    ELSE Page_backward_checked(start, n)

\* The operations of the two unit types, by the kind of their address.
Unit_start_address(k, u) ==
    IF k = "physical" THEN Frame_start_address(u) ELSE Page_start_address(u)

Unit_containing_address(k, a) ==
    IF k = "physical" THEN Frame_containing_address(a)
    ELSE Page_containing_address(a)

Unit_add(k, u, rhs) ==
    IF k = "physical" THEN Frame_add(u, rhs) ELSE Page_add(u, rhs)

Unit_add_assign(k, u, rhs) ==
    IF k = "physical" THEN Frame_add_assign(u, rhs) ELSE Page_add_assign(u, rhs)

Unit_sub(k, u, rhs) ==
    IF k = "physical" THEN Frame_sub(u, rhs) ELSE Page_sub(u, rhs)

Unit_sub_assign(k, u, rhs) ==
    IF k = "physical" THEN Frame_sub_assign(u, rhs) ELSE Page_sub_assign(u, rhs)

---------------------------------------------------------------------------
\* range.rs: the operations that go through addresses

\* FrameRange::from_phys_addr; a failed assert! panics
FrameRange_from_phys_addr(starting_addr, size_in_bytes) ==
    IF ~(size_in_bytes > 0)
    THEN Abort
    ELSE LET start == Frame_containing_address(starting_addr)
             end   == Frame_containing_address(
                          PhysicalAddress_add(starting_addr, size_in_bytes - 1))
         IN  Ret(FrameRange_new(start, end))

PageRange_from_virt_addr(starting_addr, size_in_bytes) ==
    IF ~(size_in_bytes > 0)
    THEN Abort
    ELSE LET start == Page_containing_address(starting_addr)
             end   == Page_containing_address(
                          VirtualAddress_add(starting_addr, size_in_bytes - 1))
         IN  Ret(PageRange_new(start, end))

\* The FrameRange (k = "physical") and PageRange (k = "virtual") methods
\* below return the set of their outcomes: checked usize arithmetic that
\* overflows panics (Abort) where overflow is checked and wraps where not.

\* self.0.end().number + 1
add_one(number) ==
    IF number + 1 > usize_MAX THEN {Abort, Some(0)} ELSE {Some(number + 1)}

\* a - b on usize
sub_usize(a, b) ==
    IF a < b THEN {Abort, Some(a - b + 2 ^ WordBits)} ELSE {Some(a - b)}

\* FrameRange::size_in_frames / PageRange::size_in_pages
Range_size_in_units(self) ==
    {IF p = Abort THEN Abort ELSE Ret(saturating_sub(p.val, self.start)) :
        p \in add_one(self.end)}

\* size_in_bytes
Range_size_in_bytes(self) ==
    UNION {IF n = Abort THEN {Abort}
           ELSE {IF p = Abort THEN Abort ELSE Ret(p.val) : p \in mul_page_size(n.val)} :
           n \in Range_size_in_units(self)}

\* start_address
Range_start_address(k, self) == Unit_start_address(k, self.start)

\* contains_address
Range_contains_address(k, self, a) ==
    contains(self, Unit_containing_address(k, a))

\* offset_of_address
Range_offset_of_address(k, self, a) ==
    IF Range_contains_address(k, self, a)
    THEN UNION {IF sa = Abort THEN {Abort} ELSE sub_usize(a, sa.val) :
                sa \in Range_start_address(k, self)}
    ELSE {None}

\* address_at_offset
Range_address_at_offset(k, self, offset) ==
    UNION {IF sz = Abort THEN {Abort}
           ELSE IF offset <= sz.val
                THEN {IF sa = Abort THEN Abort ELSE Some(Address_add(k, sa.val, offset)) :
                      sa \in Range_start_address(k, self)}
                ELSE {None} :
           sz \in Range_size_in_bytes(self)}

---------------------------------------------------------------------------
\* The registry as a state machine

Range0 == RangeInclusive_new(0, 0)

NoIter == [tag |-> "NoIter"]

\* No address, unit or iterator is in play.
AuxIdle ==
    /\ akind = "physical"
    /\ addr = 0
    /\ count = 0
    /\ unit = 0
    /\ it = NoIter
    /\ out = << >>

Init ==
    /\ list = << >>
    /\ chunk_list = << >>
    /\ op = "init"
    /\ arg = Range0
    /\ other = Range0
    /\ idx = 0
    /\ result = None
    /\ pre = << >>
    /\ admit_only = TRUE
    /\ AuxIdle

\* The raw append; the model stores at most MaxLen ranges.
Push(elem) ==
    /\ Len(list) < MaxLen
    /\ list' = push(list, elem)
    /\ op' = "push"
    /\ arg' = elem
    /\ result' = None
    /\ pre' = list
    /\ admit_only' = FALSE
    /\ UNCHANGED <<chunk_list, other, idx>>
    /\ UNCHANGED aux

Pop ==
    /\ len(list) > 0
    /\ list' = pop(list).list
    /\ op' = "pop"
    /\ arg' = Range0
    /\ result' = Some(pop(list).ret)
    /\ pre' = list
    /\ UNCHANGED <<chunk_list, other, idx, admit_only>>
    /\ UNCHANGED aux

PushUnique(elem) ==
    /\ list' = push_unique(list, elem).list
    /\ op' = "push_unique"
    /\ arg' = elem
    /\ result' = push_unique(list, elem).ret
    /\ pre' = list
    /\ UNCHANGED <<chunk_list, other, idx, admit_only>>
    /\ UNCHANGED aux

ObjectInList(obj) ==
    /\ op' = "object_in_list"
    /\ arg' = obj
    /\ result' = object_in_list(list, obj)
    /\ pre' = list
    /\ UNCHANGED <<list, chunk_list, other, idx, admit_only>>
    /\ UNCHANGED aux

ObjectInListRec(start_index, obj) ==
    /\ len(list) > 0
    /\ start_index < len(list)
    /\ op' = "object_in_list_rec"
    /\ arg' = obj
    /\ idx' = start_index
    /\ result' = object_in_list_rec(list, start_index, obj)
    /\ pre' = list
    /\ UNCHANGED <<list, chunk_list, other, admit_only>>
    /\ UNCHANGED aux

TrustedPChunkNew(frames) ==
    /\ chunk_list' = TrustedPChunk_new(frames, chunk_list).chunk_list
    /\ op' = "TrustedPChunk_new"
    /\ arg' = frames
    /\ result' = TrustedPChunk_new(frames, chunk_list).ret
    /\ pre' = list
    /\ UNCHANGED <<list, other, idx, admit_only>>
    /\ UNCHANGED aux

Next ==
    \/ \E elem \in Ranges : Push(elem)
    \/ Pop
    \/ \E elem \in Ranges : PushUnique(elem)
    \/ \E obj \in Ranges : ObjectInList(obj)

Spec == Init /\ [][Next]_vars

---------------------------------------------------------------------------
\* One call on a drawn registry: every Vec<FrameRange> of at most MaxLen
\* ranges (each is a list the raw append builds), every range argument.

RECURSIVE ListsUpTo(_)
ListsUpTo(n) ==
    IF n = 0 THEN { << >> }
    ELSE LET shorter == ListsUpTo(n - 1)
         IN  shorter \cup { Append(l, r) : l \in { q \in shorter : Len(q) = n - 1 }, r \in Ranges }

InitCall ==
    /\ list \in ListsUpTo(MaxLen)
    /\ chunk_list = list
    /\ op = "init"
    /\ arg \in Ranges
    /\ other = Range0
    /\ idx = 0
    /\ result = None
    /\ pre = list
    /\ admit_only = FALSE
    /\ AuxIdle

CallPushUnique == op = "init" /\ PushUnique(arg)

CallObjectInList == op = "init" /\ ObjectInList(arg)

CallObjectInListRec ==
    /\ op = "init"
    /\ \E start_index \in 0..(MaxLen - 1) : ObjectInListRec(start_index, arg)

CallTrustedPChunkNew == op = "init" /\ TrustedPChunkNew(arg)

NextCall ==
    \/ CallPushUnique
    \/ CallObjectInList
    \/ CallObjectInListRec
    \/ CallTrustedPChunkNew

SpecCall == InitCall /\ [][NextCall]_vars

---------------------------------------------------------------------------
\* The range operations applied to drawn ranges

InitRange ==
    /\ list = << >>
    /\ chunk_list = << >>
    /\ op = "init"
    /\ arg \in UnitRanges
    /\ other \in UnitRanges
    /\ idx = 0
    /\ result = None
    /\ pre = << >>
    /\ admit_only = TRUE
    /\ AuxIdle

FrameOverlap ==
    /\ op = "init"
    /\ op' = "FrameRange_overlap"
    /\ result' = FrameRange_overlap(arg, other)
    /\ UNCHANGED <<list, chunk_list, arg, other, idx, pre, admit_only>>
    /\ UNCHANGED aux

PageOverlap ==
    /\ op = "init"
    /\ op' = "PageRange_overlap"
    /\ result' = PageRange_overlap(arg, other)
    /\ UNCHANGED <<list, chunk_list, arg, other, idx, pre, admit_only>>
    /\ UNCHANGED aux

\* RangeInclusive::new(a, b) followed by is_empty(), with a = arg.start and
\* b = other.end; the result keeps the constructed range beside the answer.
IsEmpty ==
    /\ op = "init"
    /\ op' = "is_empty"
    /\ LET r == RangeInclusive_new(arg.start, other.end)
       IN  result' = [range |-> r, is_empty |-> is_empty(r)]
    /\ UNCHANGED <<list, chunk_list, arg, other, idx, pre, admit_only>>
    /\ UNCHANGED aux

\* arg.contains(&item) with the unit other.start as item
Contains ==
    /\ op = "init"
    /\ op' = "contains"
    /\ result' = Ret(contains(arg, other.start))
    /\ UNCHANGED <<list, chunk_list, arg, other, idx, pre, admit_only>>
    /\ UNCHANGED aux

\* arg.to_extended(to_include) with the unit other.start as to_include
FrameToExtended ==
    /\ op = "init"
    /\ op' = "FrameRange_to_extended"
    /\ result' = Ret(FrameRange_to_extended(arg, other.start))
    /\ UNCHANGED <<list, chunk_list, arg, other, idx, pre, admit_only>>
    /\ UNCHANGED aux

PageToExtended ==
    /\ op = "init"
    /\ op' = "PageRange_to_extended"
    /\ result' = Ret(PageRange_to_extended(arg, other.start))
    /\ UNCHANGED <<list, chunk_list, arg, other, idx, pre, admit_only>>
    /\ UNCHANGED aux

\* to_extended(to_include) on the range the call before returned, which pre keeps
ToExtendedAgain ==
    /\ op \in {"FrameRange_to_extended", "PageRange_to_extended"}
    /\ op' = "to_extended_again"
    /\ pre' = <<result.val>>
    /\ result' = Ret(IF op = "FrameRange_to_extended"
                     THEN FrameRange_to_extended(result.val, other.start)
                     ELSE PageRange_to_extended(result.val, other.start))
    /\ UNCHANGED <<list, chunk_list, arg, other, idx, admit_only>>
    /\ UNCHANGED aux

NextRange ==
    \/ FrameOverlap
    \/ PageOverlap
    \/ IsEmpty
    \/ Contains
    \/ FrameToExtended
    \/ PageToExtended
    \/ ToExtendedAgain

SpecRange == InitRange /\ [][NextRange]_vars

---------------------------------------------------------------------------
\* Addresses: any sequence of constructions and arithmetic by a byte count

\* The variables of the registry and range operations.
reg == <<list, chunk_list, arg, other, idx, pre, admit_only>>

RegIdle ==
    /\ list = << >>
    /\ chunk_list = << >>
    /\ arg = Range0
    /\ other = Range0
    /\ idx = 0
    /\ pre = << >>
    /\ admit_only = TRUE

InitAddr ==
    /\ RegIdle
    /\ op = "init"
    /\ result = None
    /\ AuxIdle

\* PhysicalAddress::new(a) / VirtualAddress::new(a)
AddrNew(k, a) ==
    /\ op' = "new"
    /\ result' = Address_new(k, a)
    /\ IF result' = None
       THEN UNCHANGED <<akind, addr>>
       ELSE akind' = k /\ addr' = result'.val
    /\ UNCHANGED <<reg, count, unit, it, out>>

AddrNewCanonical(k, a) ==
    /\ op' = "new_canonical"
    /\ akind' = k
    /\ addr' = Address_new_canonical(k, a)
    /\ result' = Some(addr')
    /\ UNCHANGED <<reg, count, unit, it, out>>

AddrZero(k) ==
    /\ op' = "zero"
    /\ akind' = k
    /\ addr' = Address_zero(k)
    /\ result' = Some(addr')
    /\ UNCHANGED <<reg, count, unit, it, out>>

\* self + rhs: the sum is the address the sequence goes on with
AddrAdd(rhs) ==
    /\ op' = "add"
    /\ addr' = Address_add(akind, addr, rhs)
    /\ result' = Some(addr')
    /\ UNCHANGED <<reg, akind, count, unit, it, out>>

AddrAddAssign(rhs) ==
    /\ op' = "add_assign"
    /\ addr' = Address_add_assign(akind, addr, rhs)
    /\ result' = None
    /\ UNCHANGED <<reg, akind, count, unit, it, out>>

AddrSub(rhs) ==
    /\ op' = "sub"
    /\ addr' = Address_sub(akind, addr, rhs)
    /\ result' = Some(addr')
    /\ UNCHANGED <<reg, akind, count, unit, it, out>>

AddrSubAssign(rhs) ==
    /\ op' = "sub_assign"
    /\ addr' = Address_sub_assign(akind, addr, rhs)
    /\ result' = None
    /\ UNCHANGED <<reg, akind, count, unit, it, out>>

NextAddr ==
    \/ \E k \in AddressKinds, a \in usize : AddrNew(k, a)
    \/ \E k \in AddressKinds, a \in usize : AddrNewCanonical(k, a)
    \/ \E k \in AddressKinds : AddrZero(k)
    \/ \E rhs \in usize : AddrAdd(rhs)
    \/ \E rhs \in usize : AddrAddAssign(rhs)
    \/ \E rhs \in usize : AddrSub(rhs)
    \/ \E rhs \in usize : AddrSubAssign(rhs)

SpecAddr == InitAddr /\ [][NextAddr]_vars

---------------------------------------------------------------------------
\* Addresses: one constructor or canonicalize call on every word, kept in count

InitAddrCall ==
    /\ RegIdle
    /\ op = "init"
    /\ result = None
    /\ akind \in AddressKinds
    /\ addr = 0
    /\ count \in usize
    /\ unit = 0
    /\ it = NoIter
    /\ out = << >>

CallNew == op = "init" /\ AddrNew(akind, count)

CallNewCanonical == op = "init" /\ AddrNewCanonical(akind, count)

\* canonicalize_physical_address(count) / canonicalize_virtual_address(count)
Canonicalize ==
    /\ op = "init"
    /\ op' = "canonicalize"
    /\ addr' = canonicalize(akind, count)
    /\ result' = Some(addr')
    /\ UNCHANGED <<reg, akind, count, unit, it, out>>

\* the same function applied to what it returned
CanonicalizeAgain ==
    /\ op = "canonicalize"
    /\ op' = "canonicalize_again"
    /\ result' = Some(canonicalize(akind, addr))
    /\ UNCHANGED <<reg, akind, addr, count, unit, it, out>>

NextAddrCall ==
    \/ CallNew
    \/ CallNewCanonical
    \/ Canonicalize
    \/ CanonicalizeAgain

SpecAddrCall == InitAddrCall /\ [][NextAddrCall]_vars

---------------------------------------------------------------------------
\* Units: one call on every unit number, with every count

InitUnit ==
    /\ RegIdle
    /\ op = "init"
    /\ result = None
    /\ akind \in AddressKinds
    /\ addr = 0
    /\ count \in usize
    /\ unit \in usize
    /\ it = NoIter
    /\ out = << >>

\* Frame::start_address / Page::start_address
UnitStartAddress ==
    /\ op = "init"
    /\ op' = "start_address"
    /\ result' \in Unit_start_address(akind, unit)
    /\ addr' = IF result' = Abort THEN addr ELSE result'.val
    /\ UNCHANGED <<reg, akind, count, unit, it, out>>

\* Frame::containing_address / Page::containing_address of that address
UnitContainingAddress ==
    /\ op = "start_address"
    /\ result # Abort
    /\ op' = "containing_address"
    /\ result' = Some(Unit_containing_address(akind, addr))
    /\ UNCHANGED <<reg, akind, addr, count, unit, it, out>>

UnitAdd ==
    /\ op = "init"
    /\ op' = "add"
    /\ result' = Some(Unit_add(akind, unit, count))
    /\ UNCHANGED <<reg, akind, addr, count, unit, it, out>>

\* += and -= leave the new number in a second copy of the unit, kept in
\* result, so that the operand stays visible.
UnitAddAssign ==
    /\ op = "init"
    /\ op' = "add_assign"
    /\ result' = Some(Unit_add_assign(akind, unit, count))
    /\ UNCHANGED <<reg, akind, addr, count, unit, it, out>>

UnitSub ==
    /\ op = "init"
    /\ op' = "sub"
    /\ result' = Some(Unit_sub(akind, unit, count))
    /\ UNCHANGED <<reg, akind, addr, count, unit, it, out>>

UnitSubAssign ==
    /\ op = "init"
    /\ op' = "sub_assign"
    /\ result' = Some(Unit_sub_assign(akind, unit, count))
    /\ UNCHANGED <<reg, akind, addr, count, unit, it, out>>

NextUnit ==
    \/ UnitStartAddress
    \/ UnitContainingAddress
    \/ UnitAdd
    \/ UnitAddAssign
    \/ UnitSub
    \/ UnitSubAssign

SpecUnit == InitUnit /\ [][NextUnit]_vars

---------------------------------------------------------------------------
\* memory_structs/range_inclusive.rs: iteration over a FrameRange

\* RangeInclusive::iter
iter(r) == [offset |-> r.start, end |-> r.end]

\* RangeInclusiveIterator::next; expect on None panics
next(i) ==
    IF i.offset > i.end
    THEN [it |-> i, ret |-> None]
    ELSE LET n == Frame_forward_checked(i.offset, 1)
         IN  IF n = None
             THEN [it |-> i, ret |-> Abort]
             ELSE [it |-> [i EXCEPT !.offset = n.val], ret |-> Some(i.offset)]

\* The unit numbers of the iterated ranges: the lowest, those up to
\* MAX_PAGE_NUMBER and those up to usize::MAX.
IterUnits ==
    (0..MaxIterSpan)
        \cup ((MAX_PAGE_NUMBER - MaxIterSpan)..MAX_PAGE_NUMBER)
        \cup ((usize_MAX - MaxIterSpan)..usize_MAX)

InitIter ==
    /\ list = << >>
    /\ chunk_list = << >>
    /\ op = "init"
    /\ arg \in {FrameRange_new(s, e) : s \in IterUnits, e \in IterUnits}
    /\ other = Range0
    /\ idx = 0
    /\ result = None
    /\ pre = << >>
    /\ admit_only = TRUE
    /\ AuxIdle

\* arg.iter(), at first or after the iterator before it has ended; idx counts
\* the calls and pre keeps what the iterator before yielded.
Iter ==
    /\ idx < MaxIters
    /\ op = "init" \/ (op = "next" /\ result = None)
    /\ op' = "iter"
    /\ idx' = idx + 1
    /\ pre' = out
    /\ it' = iter(arg)
    /\ out' = << >>
    /\ result' = Some(it')
    /\ UNCHANGED <<list, chunk_list, arg, other, admit_only, akind, addr, count, unit>>

\* it.next(): no call follows a panic
IterNext ==
    /\ op \in {"iter", "next"}
    /\ result # Abort
    /\ op' = "next"
    /\ it' = next(it).it
    /\ result' = next(it).ret
    /\ out' = IF result' \in {None, Abort} THEN out ELSE Append(out, result'.val)
    /\ UNCHANGED <<reg, akind, addr, count, unit>>

\* The successor of the unit arg.end as a Frame or as a Page:
\* Step::forward_checked(arg.end, 1)
StepForward ==
    /\ op = "init"
    /\ op' = "forward_checked"
    /\ akind' \in AddressKinds
    /\ result' = Unit_forward_checked(akind', arg.end, 1)
    /\ UNCHANGED <<reg, addr, count, unit, it, out>>

\* The predecessor of the unit arg.start: Step::backward_checked(arg.start, 1)
StepBackward ==
    /\ op = "init"
    /\ op' = "backward_checked"
    /\ akind' \in AddressKinds
    /\ result' = Unit_backward_checked(akind', arg.start, 1)
    /\ UNCHANGED <<reg, addr, count, unit, it, out>>

NextIter ==
    \/ Iter
    \/ IterNext
    \/ StepForward
    \/ StepBackward

SpecIter == InitIter /\ [][NextIter]_vars

---------------------------------------------------------------------------
\* Ranges from an address and a size: one call on every canonical address
\* with every size

InitFrom ==
    /\ RegIdle
    /\ op = "init"
    /\ result = None
    /\ akind \in AddressKinds
    /\ addr \in {Address_new_canonical(akind, a) : a \in usize}
    /\ count \in usize
    /\ unit = 0
    /\ it = NoIter
    /\ out = << >>

FromPhysAddr ==
    /\ op = "init"
    /\ akind = "physical"
    /\ op' = "from_phys_addr"
    /\ result' = FrameRange_from_phys_addr(addr, count)
    /\ UNCHANGED <<reg, aux>>

FromVirtAddr ==
    /\ op = "init"
    /\ akind = "virtual"
    /\ op' = "from_virt_addr"
    /\ result' = PageRange_from_virt_addr(addr, count)
    /\ UNCHANGED <<reg, aux>>

NextFrom ==
    \/ FromPhysAddr
    \/ FromVirtAddr

SpecFrom == InitFrom /\ [][NextFrom]_vars

---------------------------------------------------------------------------
\* Sizes and offsets: one call on every range of units up to MAX_PAGE_NUMBER,
\* with every word as offset (count) or as address (new_canonical(count))

InitRangeAddr ==
    /\ list = << >>
    /\ chunk_list = << >>
    /\ op = "init"
    /\ arg \in RangesUpTo(MAX_PAGE_NUMBER)
    /\ other = Range0
    /\ idx = 0
    /\ result = None
    /\ pre = << >>
    /\ admit_only = TRUE
    /\ akind \in AddressKinds
    /\ addr = 0
    /\ count \in usize
    /\ unit = 0
    /\ it = NoIter
    /\ out = << >>

\* size_in_frames / size_in_pages takes no argument: called where count is 0
SizeInUnits ==
    /\ op = "init"
    /\ count = 0
    /\ op' = "size_in_units"
    /\ result' \in Range_size_in_units(arg)
    /\ UNCHANGED <<reg, aux>>

SizeInBytes ==
    /\ op = "init"
    /\ count = 0
    /\ op' = "size_in_bytes"
    /\ result' \in Range_size_in_bytes(arg)
    /\ UNCHANGED <<reg, aux>>

AddressAtOffset ==
    /\ op = "init"
    /\ op' = "address_at_offset"
    /\ result' \in Range_address_at_offset(akind, arg, count)
    /\ UNCHANGED <<reg, aux>>

\* offset_of_address of the address new_canonical(count), kept in addr
OffsetOfAddress ==
    /\ op = "init"
    /\ op' = "offset_of_address"
    /\ addr' = Address_new_canonical(akind, count)
    /\ result' \in Range_offset_of_address(akind, arg, addr')
    /\ UNCHANGED <<reg, akind, count, unit, it, out>>

\* address_at_offset of the offset that offset_of_address returned
AddressAtOffsetOfAddress ==
    /\ op = "offset_of_address"
    /\ result.tag = "Some"
    /\ op' = "address_at_offset_of_address"
    /\ result' \in Range_address_at_offset(akind, arg, result.val)
    /\ UNCHANGED <<reg, aux>>

NextRangeAddr ==
    \/ SizeInUnits
    \/ SizeInBytes
    \/ AddressAtOffset
    \/ OffsetOfAddress
    \/ AddressAtOffsetOfAddress

SpecRangeAddr == InitRangeAddr /\ [][NextRangeAddr]_vars

---------------------------------------------------------------------------
\* Properties

PairwiseDisjoint(l) ==
    \A i \in 1..Len(l), j \in 1..Len(l) :
        i # j => FrameRange_overlap(l[i], l[j]) = None

\* What admission is meant to keep: non-empty ranges, pairwise disjoint.
ValidRegistry(l) ==
    /\ PairwiseDisjoint(l)
    /\ \A i \in 1..Len(l) : ~is_empty(l[i])

\* l without its element at the zero-based index i.
RemoveAt(l, i) == SubSeq(l, 1, i) \o SubSeq(l, i + 2, Len(l))

\* Some element of l has exactly the bounds of obj.
Tracked(l, obj) ==
    \E i \in 1..Len(l) : l[i].start = obj.start /\ l[i].end = obj.end

SetMax(S) == CHOOSE m \in S : \A n \in S : m >= n

SetMin(S) == CHOOSE m \in S : \A n \in S : m <= n

Units(r) == { u \in 0..(MaxUnit + 1) : contains(r, u) }

C2_RejectsOverlap ==
    (op = "push_unique" /\ overlaps_in(pre, arg))
        => (result = Some(arg) /\ list = pre)

\* The rejected range overlaps a tracked range without having its bounds.
C2_Witness ==
    /\ op = "push_unique"
    /\ overlaps_in(pre, arg)
    /\ ~Tracked(pre, arg)
    /\ result = Some(arg)
    /\ list = pre

\* C3: a range with start > end is rejected by push_unique whatever the
\* registry holds, is not appended, and TrustedPChunk::new makes no chunk of it.
C3_RejectsMalformed ==
    /\ (op = "push_unique" /\ arg.start > arg.end)
            => (result = Some(arg) /\ list = pre)
    /\ (op = "TrustedPChunk_new" /\ arg.start > arg.end) => result = None

\* A malformed range was proposed to the empty registry and handed back.
C3_Witness ==
    /\ op = "push_unique"
    /\ arg.start > arg.end
    /\ pre = << >>
    /\ list = << >>
    /\ result = Some(arg)

\* C4: push_unique of a range with start <= end that overlaps no tracked
\* range returns None and appends the range as the last element.
C4_AdmitsDisjoint ==
    (op = "push_unique" /\ arg.start <= arg.end /\ ~overlaps_in(pre, arg))
        => (result = None /\ list = Append(pre, arg))

\* C5: when push_unique returns Some, the list is the list before the call
\* and the value handed back is the argument.
C5_RejectLeavesUnchanged ==
    (op = "push_unique" /\ result.tag = "Some")
        => (list = pre /\ result.val = arg)

\* A rejection on a registry that holds two ranges.
C5_Witness ==
    /\ op = "push_unique"
    /\ result.tag = "Some"
    /\ Len(pre) >= 2
    /\ list = pre

\* C6: every tracked range of a valid registry can be removed: some removal
\* step takes exactly that element out, and the lookup of its bounds then
\* finds nothing.
C6_TrackedRemovable ==
    ValidRegistry(list) =>
        \A i \in 0..(Len(list) - 1) :
            ENABLED ( /\ Pop
                      /\ list' = RemoveAt(list, i)
                      /\ object_in_list(list', list[i + 1]) = None )

\* C7: a removal that follows the exact-bounds lookup of a tracked range
\* removes the element the lookup identified and no other.
C7_RemovesIdentified ==
    [][ ( /\ ValidRegistry(list)
          /\ op = "object_in_list"
          /\ result.tag = "Some"
          /\ Pop )
        => list' = RemoveAt(list, result.val) ]_vars

\* C8: a lookup that returns Some(i) returns a valid index whose element has
\* exactly the bounds of the argument.
C8_LookupSound ==
    (op \in {"object_in_list", "object_in_list_rec"} /\ result.tag = "Some")
        => /\ result.val \in 0..(Len(list) - 1)
           /\ list[result.val + 1].start = arg.start
           /\ list[result.val + 1].end = arg.end

\* The match is found behind an element that has the same start and another end.
C8_Witness ==
    /\ op = "object_in_list"
    /\ result.tag = "Some"
    /\ result.val > 0
    /\ list[1].start = arg.start
    /\ list[1].end # arg.end

\* C9: object_in_list never aborts and returns None exactly when no tracked
\* element has both bounds of the argument.
C9_LookupComplete ==
    op = "object_in_list"
        => /\ result # Abort
           /\ (result = None) <=> ~Tracked(list, arg)

\* Found at the last index of a list of several ranges.
C9_Witness ==
    /\ op = "object_in_list"
    /\ Len(list) >= 2
    /\ result = Some(Len(list) - 1)

\* C10: overlap returns Some([max of the starts, min of the ends]) exactly
\* when that max is <= that min, else None; for non-empty operands it is Some
\* exactly when a unit lies in both, and then holds exactly the shared units.
C10_Overlap ==
    op \in {"FrameRange_overlap", "PageRange_overlap"} =>
        LET starts == SetMax({arg.start, other.start})
            ends   == SetMin({arg.end, other.end})
        IN  /\ starts <= ends => result = Some([start |-> starts, end |-> ends])
            /\ ~(starts <= ends) => result = None
            /\ (~is_empty(arg) /\ ~is_empty(other)) =>
                   /\ (result.tag = "Some") <=> (Units(arg) \cap Units(other) # {})
                   /\ result.tag = "Some" =>
                          Units(result.val) = Units(arg) \cap Units(other)
            /\ (arg = FrameRange_new(1, 5) /\ other = FrameRange_new(4, 8))
                   => result = Some(FrameRange_new(4, 5))
            /\ (arg = FrameRange_new(1, 5) /\ other = FrameRange_new(6, 8))
                   => result = None

\* [1,5].overlap([4,8]) has been computed.
C10_Witness ==
    /\ op = "FrameRange_overlap"
    /\ arg = FrameRange_new(1, 5)
    /\ other = FrameRange_new(4, 8)
    /\ result = Some(FrameRange_new(4, 5))

\* C11: overlap is symmetric: for all ranges x and y, empty or not,
\* x.overlap(y) equals y.overlap(x), for frame ranges and for page ranges.
C11_OverlapSymmetric ==
    /\ op = "FrameRange_overlap" => result = FrameRange_overlap(other, arg)
    /\ op = "PageRange_overlap" => result = PageRange_overlap(other, arg)

\* Two different ranges that share some units, overlapped in one order.
C11_Witness ==
    /\ op = "FrameRange_overlap"
    /\ arg.start < other.start
    /\ other.start < arg.end
    /\ arg.end < other.end
    /\ result = Some(FrameRange_new(other.start, arg.end))

\* C12: an empty operand never overlaps: when either operand has
\* end < start, overlap returns None whatever the other operand is.
C12_EmptyNeverOverlaps ==
    op \in {"FrameRange_overlap", "PageRange_overlap"}
        => (is_empty(arg) \/ is_empty(other) => result = None)

\* An empty range lying inside a non-empty one, overlapped with it.
C12_Witness ==
    /\ op = "FrameRange_overlap"
    /\ is_empty(arg)
    /\ ~is_empty(other)
    /\ other.start < arg.end
    /\ arg.start < other.end
    /\ result = None

\* C19: RangeInclusive::new(a, b) stores a and b as given and its is_empty()
\* is exactly b < a: start = end and start < end are not empty, start > end is.
C19_EmptinessLaw ==
    op = "is_empty" =>
        /\ result.range.start = arg.start
        /\ result.range.end = other.end
        /\ result.is_empty = (other.end < arg.start)
        /\ arg.start = other.end => ~result.is_empty
        /\ arg.start < other.end => ~result.is_empty
        /\ arg.start > other.end => result.is_empty

\* A range of one unit was built and found not empty.
C19_Witness ==
    /\ op = "is_empty"
    /\ arg.start = other.end
    /\ arg.start > 0
    /\ result = [range |-> RangeInclusive_new(arg.start, arg.start), is_empty |-> FALSE]

\* Canonical form stated on the value: a physical address is below
\* 2^PhysBits; a virtual address lies in the low half below 2^(VirtBits-1)
\* or in the high half from 2^WordBits - 2^(VirtBits-1) up.
Canonical(k, a) ==
    IF k = "physical"
    THEN a < 2 ^ PhysBits
    ELSE a < 2 ^ (VirtBits - 1) \/ a >= 2 ^ WordBits - 2 ^ (VirtBits - 1)

\* C13: every address reached through new (when it returns Some),
\* new_canonical, zero and any sequence of +, -, +=, -= by a byte count is
\* canonical for its kind.
C13_AlwaysCanonical ==
    /\ addr \in usize
    /\ Canonical(akind, addr)

\* An addition carried a virtual address into the high half.
C13_Witness ==
    /\ op = "add"
    /\ akind = "virtual"
    /\ addr >= 2 ^ WordBits - 2 ^ (VirtBits - 1)
    /\ result = Some(addr)

\* C14: addition and subtraction by a byte count never wrap: the value after
\* a + n is at least the value of a, and the value after a - n is at most it.
C14_NeverWraps ==
    [][/\ op' \in {"add", "add_assign"} => addr' >= addr
       /\ op' \in {"sub", "sub_assign"} => addr' <= addr]_vars

\* C15: new(value) returns None exactly when value is not canonical for the
\* kind, and otherwise an address holding value unchanged; new succeeds
\* exactly when new_canonical(value) is value.
C15_NewValidates ==
    op = "new" =>
        /\ (result = None) <=> ~Canonical(akind, count)
        /\ result # None => result = Some(count) /\ addr = count
        /\ (result # None) <=> (Address_new_canonical(akind, count) = count)

\* new accepted a virtual address of the high half as it is.
C15_Witness ==
    /\ op = "new"
    /\ akind = "virtual"
    /\ count >= 2 ^ WordBits - 2 ^ (VirtBits - 1)
    /\ result = Some(count)

\* C16: canonicalize is idempotent: applied to its own result it returns
\* that result, for the physical and the virtual function and every word.
C16_CanonicalizeIdempotent ==
    op = "canonicalize_again" => result = Some(addr)

\* A word that the first application changed, canonicalized twice.
C16_Witness ==
    /\ op = "canonicalize_again"
    /\ akind = "virtual"
    /\ addr # count
    /\ addr = canonicalize_virtual_address(count)
    /\ result = Some(addr)

\* C17: unit round trip: for every Frame and every Page with number in
\* 0..MAX_PAGE_NUMBER, containing_address(start_address()) is the unit.
C17_RoundTrip ==
    op = "containing_address" /\ unit <= MAX_PAGE_NUMBER => result = Some(unit)

\* C18: unit arithmetic saturates: u + c has number min(MAX_PAGE_NUMBER,
\* u.number + c) and never exceeds MAX_PAGE_NUMBER, u - c has number
\* u.number - c floored at 0; MAX_PAGE_NUMBER + 1 stays and 0 - 1 stays.
C18_UnitSaturates ==
    /\ op \in {"add", "add_assign"} =>
        /\ result = Some(min(MAX_PAGE_NUMBER, unit + count))
        /\ result.val <= MAX_PAGE_NUMBER
        /\ unit = MAX_PAGE_NUMBER /\ count = 1 => result.val = MAX_PAGE_NUMBER
    /\ op \in {"sub", "sub_assign"} =>
        /\ result = Some(max(0, unit - count))
        /\ unit = 0 /\ count = 1 => result.val = 0

\* The largest frame plus one is the largest frame.
C18_Witness ==
    /\ op = "add"
    /\ akind = "physical"
    /\ unit = MAX_PAGE_NUMBER
    /\ count = 1
    /\ result = Some(MAX_PAGE_NUMBER)

\* The units start, start + 1, ..., end in ascending order; none when end < start.
UnitsInOrder(r) ==
    IF r.end < r.start THEN << >>
    ELSE [i \in 1..(r.end - r.start + 1) |-> r.start + i - 1]

\* C20: iter() on [start, end] yields exactly start, start + 1, ..., end in
\* ascending order, each once, and then ends: end - start + 1 units for a
\* non-empty range and none for an empty one; a second iter() on the same
\* range yields the same sequence again.
C20_IterYieldsRange ==
    /\ op \in {"iter", "next"} =>
            /\ Len(out) <= Len(UnitsInOrder(arg))
            /\ out = SubSeq(UnitsInOrder(arg), 1, Len(out))
    /\ op = "next" /\ result \in {None, Abort} =>
            /\ result = None
            /\ out = UnitsInOrder(arg)
            /\ Len(out) = (IF is_empty(arg) THEN 0 ELSE arg.end - arg.start + 1)
            /\ idx > 1 => out = pre

\* C21: contains(x) holds exactly when start <= x <= end, both bounds
\* included, and never for an empty range; [1,5] contains 1, 3 and 5 and
\* neither 0 nor 6.
C21_Contains ==
    op = "contains" =>
        LET x == other.start
        IN  /\ result = Ret(x \in arg.start..arg.end)
            /\ is_empty(arg) => result = Ret(FALSE)
            /\ arg = FrameRange_new(1, 5) /\ x \in {1, 3, 5} => result = Ret(TRUE)
            /\ arg = FrameRange_new(1, 5) /\ x \in {0, 6} => result = Ret(FALSE)

\* [1,5] was asked for its last unit and has it.
C21_Witness ==
    /\ op = "contains"
    /\ arg = FrameRange_new(1, 5)
    /\ other.start = 5
    /\ result = Ret(TRUE)

\* C26: to_extended(unit) is [unit, unit] for an empty range and
\* [min(start, unit), max(end, unit)] otherwise; the result contains unit
\* and every unit of the original range, and extending it by the same unit
\* again changes nothing.
C26_ToExtended ==
    /\ op \in {"FrameRange_to_extended", "PageRange_to_extended"} =>
        LET u == other.start
            r == result.val
        IN  /\ is_empty(arg) => r = RangeInclusive_new(u, u)
            /\ ~is_empty(arg) =>
                    /\ r.start = (IF arg.start <= u THEN arg.start ELSE u)
                    /\ r.end = (IF arg.end >= u THEN arg.end ELSE u)
            /\ u \in r.start..r.end
            /\ (arg.start..arg.end) \subseteq (r.start..r.end)
    /\ op = "to_extended_again" => result.val = pre[1]

\* An empty range extended by a unit above both its bounds.
C26_Witness ==
    /\ op = "FrameRange_to_extended"
    /\ is_empty(arg)
    /\ other.start > arg.start
    /\ result = Ret(FrameRange_new(other.start, other.start))

\* C22: for every address a and size s > 0, from_phys_addr / from_virt_addr
\* yields the range from containing_address(a) to
\* containing_address(a + (s - 1)); it is never empty, and for a page-aligned
\* a with s = PAGE_SIZE it is the one unit whose start_address() is a.
C22_FromAddress ==
    op \in {"from_phys_addr", "from_virt_addr"} /\ count > 0 =>
        /\ result.tag = "Ret"
        /\ result.val.start = addr \div PAGE_SIZE
        /\ result.val.end =
               Address_add(akind, addr, count - 1) \div PAGE_SIZE
        /\ ~(result.val.end < result.val.start)
        /\ addr % PAGE_SIZE = 0 /\ count = PAGE_SIZE =>
               /\ result.val.start = result.val.end
               /\ Unit_start_address(akind, result.val.start) = {Some(addr)}

\* C23: from_phys_addr / from_virt_addr with size 0 fails for every address
\* and builds no range, and the failure is a value handed back to the caller,
\* not the end of the process.
C23_ZeroSizeFailsLocally ==
    op \in {"from_phys_addr", "from_virt_addr"} /\ count = 0 =>
        /\ result.tag # "Ret"
        /\ result # Abort

\* The number of units of a range: end - start + 1, and 0 when end < start.
SizeInUnitsOf(r) == IF r.end < r.start THEN 0 ELSE r.end - r.start + 1

\* The start address of the range arg, for its kind.
StartAddressOfArg == Address_new_canonical(akind, arg.start * PAGE_SIZE)

\* C24: size_in_frames / size_in_pages is 0 for every empty range and
\* end - start + 1 for every other, which is the number of units start..end
\* that iter() yields, and size_in_bytes is that number times PAGE_SIZE.
C24_Sizes ==
    /\ op = "size_in_units" =>
            /\ result = Ret(SizeInUnitsOf(arg))
            /\ result = Ret(Len(UnitsInOrder(arg)))
            /\ is_empty(arg) => result = Ret(0)
    /\ op = "size_in_bytes" => result = Ret(SizeInUnitsOf(arg) * PAGE_SIZE)

\* C25: address_at_offset(offset) is Some(start_address + offset) exactly
\* when offset <= size_in_bytes and None above it; offset_of_address(addr) is
\* Some(addr - start_address) exactly when the range contains the address;
\* address_at_offset of that offset is the address again.
C25_Offsets ==
    /\ op = "address_at_offset" =>
            /\ count <= SizeInUnitsOf(arg) * PAGE_SIZE =>
                    result = Some(Address_add(akind, StartAddressOfArg, count))
            /\ count > SizeInUnitsOf(arg) * PAGE_SIZE => result = None
    /\ op = "offset_of_address" =>
            LET contained == (addr \div PAGE_SIZE) \in arg.start..arg.end
            IN  /\ (result # None) <=> contained
                /\ contained => result = Some(addr - StartAddressOfArg)
    /\ op = "address_at_offset_of_address" => result = Some(addr)

\* C27: stepping saturates at the unit bounds: the successor of the unit
\* MAX_PAGE_NUMBER is None, no successor has a number above MAX_PAGE_NUMBER
\* or a wrapped one, the predecessor of unit 0 is None, and iterating a
\* range that ends at MAX_PAGE_NUMBER yields its end and then ends.
C27_StepSaturates ==
    /\ op = "forward_checked" =>
            /\ arg.end = MAX_PAGE_NUMBER => result = None
            /\ result # None =>
                    /\ result.val <= MAX_PAGE_NUMBER
                    /\ result.val = arg.end + 1
    /\ op = "backward_checked" =>
            /\ arg.start = 0 => result = None
            /\ result # None => result.val = arg.start - 1
    /\ op = "next" /\ arg.end = MAX_PAGE_NUMBER /\ result \in {None, Abort} =>
            /\ result = None
            /\ out = UnitsInOrder(arg)

\* C28: released frames become admissible again: once a tracked range r
\* has been removed, push_unique(r) appends it and returns None, provided
\* nothing tracked overlaps r; while a range overlapping the argument is
\* tracked, push_unique rejects the argument and changes nothing.
C28_ReleasedAdmissible ==
    [][ /\ ( /\ op = "pop"
             /\ ~is_empty(result.val)
             /\ ~overlaps_in(list, result.val)
             /\ op' = "push_unique"
             /\ arg' = result.val )
           => (result' = None /\ list' = Append(list, arg'))
        /\ (op' = "push_unique" /\ overlaps_in(list, arg'))
           => (result' = Some(arg') /\ list' = list) ]_vars

Matches(l, obj) ==
    {i \in 0..(Len(l) - 1) : l[i + 1].start = obj.start /\ l[i + 1].end = obj.end}

\* C30: the two exact-match lookups agree: on a non-empty list,
\* object_in_list(obj) is Some exactly when object_in_list_rec(len - 1, obj)
\* is; the first returns the lowest matching index and the second the
\* highest, the same index when at most one element matches; and
\* object_in_list_rec never indexes outside the list for start_index < len.
C30_LookupsAgree ==
    op = "object_in_list_rec" =>
        /\ result # Abort
        /\ idx = Len(list) - 1 =>
               LET fwd == object_in_list(list, arg)
                   m   == Matches(list, arg)
               IN  /\ (fwd = None) <=> (result = None)
                   /\ m # {} => /\ fwd = Some(SetMin(m))
                                /\ result = Some(SetMax(m))
                   /\ Cardinality(m) <= 1 => fwd = result

\* Two elements have the bounds looked for: the lookups return the two ends.
C30_Witness ==
    /\ op = "object_in_list_rec"
    /\ Len(list) = 2
    /\ idx = 1
    /\ Matches(list, arg) = {0, 1}
    /\ result = Some(1)
    /\ object_in_list(list, arg) = Some(0)

====
